---- MODULE Spec2Model ----
(***************************************************************************)
(* Model of mcp_server_unipile/http_server.py: the FastAPI application     *)
(* that forwards five tool endpoints to the Unipile REST API.              *)
(*                                                                         *)
(* A handler is one action: it draws the caller's input and the upstream   *)
(* reply, runs the handler's code to the end and records the upstream      *)
(* calls it made and the HTTP response it gave.                            *)
(***************************************************************************)
EXTENDS Integers, Sequences, FiniteSets, TLC

\* Longest list of records the upstream returns.
MaxRecords == 2

(***************************************************************************)
(* Python / JSON values.  A str is a sequence of one-character strings, a  *)
(* dict is a function from keys to values, None is Null.                    *)
(***************************************************************************)
Null == [t |-> "null"]
Str(s) == [t |-> "str", v |-> s]
Obj(f) == [t |-> "obj", v |-> f]
Arr(l) == [t |-> "arr", v |-> l]
\* a fixed message text of the program or of a library exception
Msg(s) == [t |-> "msg", v |-> s]
EmptyDict == [k \in {} |-> Null]

\* dict.get(k): None when the key is absent
Get(d, k) == IF k \in DOMAIN d THEN d[k] ELSE Null
\* dict.get(k, default)
GetDefault(d, k, default) == IF k \in DOMAIN d THEN d[k] ELSE default

Without(d, k) == [x \in DOMAIN d \ {k} |-> d[x]]
With(d, k, v) == [x \in DOMAIN d \cup {k} |-> IF x = k THEN v ELSE d[x]]

\* Python truthiness of an os.getenv result (None or a str)
Truthy(v) == v.t = "str" /\ Len(v.v) > 0

\* str.strip(): drop leading and trailing whitespace
Whitespace == {" ", "\n", "\t"}
RECURSIVE LStrip(_)
LStrip(s) == IF s # <<>> /\ Head(s) \in Whitespace THEN LStrip(Tail(s)) ELSE s
RECURSIVE RStrip(_)
RStrip(s) == IF s # <<>> /\ s[Len(s)] \in Whitespace
             THEN RStrip(SubSeq(s, 1, Len(s) - 1)) ELSE s
Strip(s) == RStrip(LStrip(s))

(***************************************************************************)
(* Text on the wire: either the JSON text of a value, or text that is not  *)
(* JSON.  json.dumps produces the first, json.loads / Response.json()      *)
(* raise on the second.                                                    *)
(***************************************************************************)
JsonText(v) == [t |-> "text", json |-> TRUE, v |-> v]
BadText == [t |-> "text", json |-> FALSE, v |-> Null]
Dumps(v) == JsonText(v)
LoadsRaises(text) == ~text.json
Loads(text) == text.v

(***************************************************************************)
(* Results of a wrapper method: what it returned or raised, and the calls  *)
(* it made.                                                                *)
(***************************************************************************)
Return(v, cs) == [raised |-> FALSE, exc |-> Msg(""), value |-> v, calls |-> cs]
Raise(m, cs) == [raised |-> TRUE, exc |-> m, value |-> Null, calls |-> cs]

\* the response FastAPI gives for a returned dict
Success(body) == [status |-> 200, body |-> body]
\* raise HTTPException(status_code=500, detail=str(e))
HTTPException(code, detail) == [status |-> code, body |-> [detail |-> detail]]

(***************************************************************************)
(* Upstream replies.                                                        *)
(***************************************************************************)
Statuses == {200, 304, 404, 500}
Reply(s, b) == [fault |-> FALSE, status |-> s, body |-> b]
\* the connection failed: requests raises ConnectionError
NetworkFault == [fault |-> TRUE, status |-> 0, body |-> BadText]
NoReply == [fault |-> FALSE, status |-> 0, body |-> BadText]
Replies(statuses, bodies) == {Reply(s, b) : s \in statuses, b \in bodies}
\* the body of an upstream error reply
ErrorBody == JsonText(Obj([status |-> Msg("error")]))
\* what a listing call can get back: a 200 with one of `bodies`, a failure status, a fault
ListReplies(bodies) ==
    Replies({200}, bodies) \cup Replies(Statuses \ {200}, {ErrorBody}) \cup {NetworkFault}
\* what the post of an email can get back
PostReplies(bodies) == Replies(Statuses, bodies) \cup {NetworkFault}

Is2xx(s) == s >= 200 /\ s < 300

\* Response.raise_for_status(): HTTPError for 4xx and 5xx only
RaiseForStatusRaises(status) == status >= 400 /\ status < 600

SeqsUpTo(S, n) == UNION {[1..k -> S] : k \in 0..n}

VARIABLES env, phase, unipile, op, args, calls, reply, response

vars == <<env, phase, unipile, op, args, calls, reply, response>>

(***************************************************************************)
(* Startup.                                                                 *)
(***************************************************************************)
EnvValues == {Null, Str(<<>>), Str(<<"h">>)}
NoClient == Null
NoResponse == [status |-> 0, body |-> EmptyDict]

\* a startup check that fails only when both values are missing
ConfigMissingBoth(dsn, api_key) == ~Truthy(dsn) /\ ~Truthy(api_key)

\* if not dsn or not api_key
ConfigMissing(dsn, api_key) == ~Truthy(dsn) \/ ~Truthy(api_key)

\* UnipileWrapper(dsn=dsn, api_key=api_key)
UnipileWrapper(dsn, api_key) == [t |-> "client", dsn |-> dsn, api_key |-> api_key]

Init ==
    /\ env \in [dsn : EnvValues, api_key : EnvValues]
    /\ phase = "starting"
    /\ unipile = NoClient
    /\ op = "none"
    /\ args = EmptyDict
    /\ calls = <<>>
    /\ reply = NoReply
    /\ response = NoResponse

Lifespan ==
    /\ phase = "starting"
    /\ IF ConfigMissing(env.dsn, env.api_key)
       THEN /\ phase' = "failed"
            /\ unipile' = unipile
       ELSE /\ phase' = "serving"
            /\ unipile' = UnipileWrapper(env.dsn, env.api_key)
    /\ UNCHANGED <<env, op, args, calls, reply, response>>

(***************************************************************************)
(* The upstream call of reply_email and send_email: requests.post against  *)
(* the emails resource, with the module-level host and API key.            *)
(***************************************************************************)
EmailsUrl(dsn) == [host |-> dsn, path |-> "/api/v1/emails"]

\* requests.post(url, headers=headers, data=data, files=files, json=json)
Post(dsn, api_key, data, files, json) ==
    [url |-> EmailsUrl(dsn), api_key |-> api_key, data |-> data, files |-> files, json |-> json]

\* str(e) of the exceptions the handlers catch
ConnectionErrorText == Msg("ConnectionError: connection to upstream failed")
HTTPErrorText == Msg("HTTPError: Client or Server Error for url")
JSONDecodeErrorText == Msg("JSONDecodeError: Expecting value")
AttributeErrorText == Msg("AttributeError: 'NoneType' object has no attribute")
UpstreamErrorText == Msg("UpstreamError: upstream returned a failure status")

Handled(cs, resp) == [calls |-> cs, response |-> resp]

(***************************************************************************)
(* reply_email                                                              *)
(***************************************************************************)
NoFile == Null
UploadFile(name, content) == [t |-> "file", filename |-> name, file |-> content]

\* form fields that carry cc and bcc along, as they are in the EmailRequest
ReplyDataWithCopies(request, reply_to) ==
    [account_id |-> request.account_id,
     subject |-> request.subject,
     body |-> request.body,
     to |-> Dumps(request.to),
     cc |-> request.cc,
     bcc |-> request.bcc,
     reply_to |-> reply_to]

\* the form fields built from the EmailRequest and reply_to
ReplyData(request, reply_to) ==
    [account_id |-> request.account_id,
     subject |-> request.subject,
     body |-> request.body,
     to |-> Dumps(request.to),
     reply_to |-> reply_to]

\* files = {'attachments': (filename, file)} if attachment else None
ReplyFiles(attachment) ==
    IF attachment # NoFile
    THEN [attachments |-> <<attachment.filename, attachment.file>>]
    ELSE Null

reply_email(dsn, api_key, request, reply_to, attachment, rep) ==
    LET call == Post(dsn, api_key, ReplyData(request, reply_to), ReplyFiles(attachment), Null)
    IN  IF rep.fault
        THEN Handled(<<call>>, HTTPException(500, ConnectionErrorText))
        ELSE IF RaiseForStatusRaises(rep.status)
        THEN Handled(<<call>>, HTTPException(500, HTTPErrorText))
        ELSE Handled(<<call>>, Success([message |-> Msg("Reply sent successfully")]))

(***************************************************************************)
(* send_email                                                               *)
(***************************************************************************)
\* a payload rebuilt from the required fields only
SendPayloadRequiredOnly(payload) ==
    Obj([k \in DOMAIN payload.v \cap {"account_id", "subject", "body", "to"} |-> payload.v[k]])

\* requests.post(url, headers=headers, json=payload)
SendPayload(payload) == payload

\* a handler that posts a second time when the first post failed
send_email_retry(dsn, api_key, body, rep) ==
    IF LoadsRaises(body)
    THEN Handled(<<>>, HTTPException(500, JSONDecodeErrorText))
    ELSE LET payload == Loads(body)
             call == Post(dsn, api_key, Null, Null, SendPayload(payload))
         IN  IF rep.fault
             THEN Handled(<<call, call>>, HTTPException(500, ConnectionErrorText))
             ELSE IF RaiseForStatusRaises(rep.status)
             THEN Handled(<<call, call>>, HTTPException(500, HTTPErrorText))
             ELSE IF LoadsRaises(rep.body)
             THEN Handled(<<call>>, HTTPException(500, JSONDecodeErrorText))
             ELSE Handled(<<call>>,
                          Success([message |-> Msg("Email sent successfully"),
                                   response |-> Loads(rep.body)]))

send_email(dsn, api_key, body, rep) ==
    IF LoadsRaises(body)
    THEN Handled(<<>>, HTTPException(500, JSONDecodeErrorText))
    ELSE LET payload == Loads(body)
             call == Post(dsn, api_key, Null, Null, SendPayload(payload))
         IN  IF rep.fault
             THEN Handled(<<call>>, HTTPException(500, ConnectionErrorText))
             ELSE IF RaiseForStatusRaises(rep.status)
             THEN Handled(<<call>>, HTTPException(500, HTTPErrorText))
             ELSE IF LoadsRaises(rep.body)
             THEN Handled(<<call>>, HTTPException(500, JSONDecodeErrorText))
             ELSE Handled(<<call>>,
                          Success([message |-> Msg("Email sent successfully"),
                                   response |-> Loads(rep.body)]))

(***************************************************************************)
(* UnipileWrapper (module .server): one authenticated call per method, a   *)
(* non-2xx status or a network fault raises, otherwise the JSON text of    *)
(* the upstream body is returned.                                          *)
(***************************************************************************)
WrapperCall(client, path, params, rep) ==
    LET call == [url |-> [host |-> client.dsn, path |-> path], api_key |-> client.api_key,
                 data |-> Null, files |-> Null, json |-> Null, params |-> params]
    IN  IF rep.fault \/ ~Is2xx(rep.status)
        THEN Raise(UpstreamErrorText, <<call>>)
        ELSE Return(rep.body, <<call>>)

wrapper_get_accounts(client, rep) == WrapperCall(client, "/api/v1/accounts", EmptyDict, rep)

wrapper_get_all_messages(client, account_id, limit, rep) ==
    WrapperCall(client, "/api/v1/messages", [account_id |-> account_id, limit |-> limit], rep)

wrapper_get_emails(client, account_id, limit, rep) ==
    WrapperCall(client, "/api/v1/emails", [account_id |-> account_id, limit |-> limit], rep)

(***************************************************************************)
(* get_accounts, get_recent_messages                                        *)
(***************************************************************************)
\* data = json.loads(<wrapper result>); return {"data": data}
PassThrough(r) ==
    IF r.raised
    THEN Handled(r.calls, HTTPException(500, r.exc))
    ELSE IF LoadsRaises(r.value)
    THEN Handled(r.calls, HTTPException(500, JSONDecodeErrorText))
    ELSE Handled(r.calls, Success([data |-> Loads(r.value)]))

get_accounts(client, rep) == PassThrough(wrapper_get_accounts(client, rep))

get_recent_messages(client, account_id, batch_size, rep) ==
    PassThrough(wrapper_get_all_messages(client, account_id, batch_size, rep))

(***************************************************************************)
(* get_emails                                                               *)
(***************************************************************************)
SummaryKeys == {"id", "subject", "date", "from", "body"}

\* email.get("from_attendee", {}).get("email") raises when the value is not a dict
FromRaises(email) == GetDefault(email, "from_attendee", Obj(EmptyDict)).t # "obj"
\* email.get("body_markdown", "").strip() raises when the value is not a str
BodyRaises(email) == GetDefault(email, "body_markdown", Str(<<>>)).t # "str"
ProjectRaises(email) == FromRaises(email) \/ BodyRaises(email)

\* the value the projection gives key k of the summary of one email
ProjectField(email, k) ==
    CASE k = "id" -> Get(email, "id")
      [] k = "subject" -> Get(email, "subject")
      [] k = "date" -> Get(email, "date")
      [] k = "from" -> Get(GetDefault(email, "from_attendee", Obj(EmptyDict)).v, "email")
      [] k = "body" -> Str(Strip(GetDefault(email, "body_markdown", Str(<<>>)).v))

\* a projection that adds the summary keys and keeps the upstream ones
ProjectKeepingUpstream(email) ==
    [k \in SummaryKeys \cup DOMAIN email |->
        IF k \in SummaryKeys THEN ProjectField(email, k) ELSE email[k]]

\* the dict built for one email of raw_data
Project(email) == [k \in SummaryKeys |-> ProjectField(email, k)]

\* a listing that returns the summaries newest first
ProjectAllReversed(raw_data) ==
    [i \in 1..Len(raw_data) |-> Obj(Project(raw_data[Len(raw_data) + 1 - i].v))]

\* emails = [ {...} for email in raw_data ]
ProjectAll(raw_data) == [i \in 1..Len(raw_data) |-> Obj(Project(raw_data[i].v))]

get_emails(client, account_id, limit, rep) ==
    LET r == wrapper_get_emails(client, account_id, limit, rep)
    IN  IF r.raised
        THEN Handled(r.calls, HTTPException(500, r.exc))
        ELSE IF LoadsRaises(r.value)
        THEN Handled(r.calls, HTTPException(500, JSONDecodeErrorText))
        ELSE LET raw_data == Loads(r.value).v
             IN  IF \E i \in 1..Len(raw_data) : ProjectRaises(raw_data[i].v)
                 THEN Handled(r.calls, HTTPException(500, AttributeErrorText))
                 ELSE Handled(r.calls, Success([emails |-> Arr(ProjectAll(raw_data))]))

(***************************************************************************)
(* Inputs: what callers send and what the upstream answers.                *)
(***************************************************************************)
A1 == Str(<<"a", "1">>)
Hi == Str(<<"H", "i">>)
Test == Str(<<"T", "e", "s", "t">>)
XY == Str(<<"x", "@", "y">>)
CY == Str(<<"c", "@", "y">>)
M1 == Str(<<"m", "1">>)

AccountIds == {A1}
Limits == {1, 2}
OptionalLists == {Null, Arr(<<CY>>)}

\* an upstream email record with every field the projection reads, and one it drops
FullRecord ==
    [id |-> M1,
     subject |-> Hi,
     date |-> Str(<<"d">>),
     from_attendee |-> Obj([email |-> XY, name |-> Str(<<"X">>)]),
     body_markdown |-> Str(<<" ", "T", "\n">>),
     folder |-> Str(<<"i", "n">>)]

\* records that differ from FullRecord in one field: the field absent, null or unusual
EmailRecords ==
    {FullRecord, EmptyDict}
      \cup {Without(FullRecord, k) : k \in {"subject", "from_attendee", "body_markdown"}}
      \cup {With(FullRecord, k, Null) : k \in {"from_attendee", "body_markdown"}}
      \cup {With(FullRecord, "from_attendee", Obj(EmptyDict))}

EmailBodies == {JsonText(Arr(l)) : l \in SeqsUpTo({Obj(r) : r \in EmailRecords}, MaxRecords)}
                 \cup {BadText}

MessageRecords == {Obj([id |-> M1, text |-> Hi]), Obj([id |-> Str(<<"m", "2">>)])}
MessageBodies == {JsonText(Arr(l)) : l \in SeqsUpTo(MessageRecords, MaxRecords)} \cup {BadText}

AccountBodies == {JsonText(Arr(<<>>)), JsonText(Arr(<<Obj([id |-> A1])>>)),
                  JsonText(Obj([items |-> Arr(<<>>)])), BadText}

SendReplyBodies == {JsonText(Obj([object |-> Str(<<"E">>), tracking_id |-> Str(<<"t">>)])),
                    BadText}

\* EmailRequest: account_id, subject, body and to are required, cc and bcc default to None
EmailRequests ==
    [account_id : AccountIds, subject : {Hi}, body : {Test},
     to : {Arr(<<>>), Arr(<<XY>>)}, cc : {Null, Arr(<<CY>>)}, bcc : {Null, Arr(<<CY>>)}]

Attachments == {NoFile, UploadFile(Str(<<"f">>), Str(<<"0">>))}

\* JSON objects a caller posts to send_email
BasePayload == [account_id |-> A1, subject |-> Hi, body |-> Test, to |-> Arr(<<XY>>)]
RequiredParts ==
    {BasePayload, With(BasePayload, "to", Arr(<<>>))}
      \cup {Without(BasePayload, k) : k \in DOMAIN BasePayload}
WithOptional(p, k, v) == IF v = Msg("absent") THEN p ELSE With(p, k, v)
SendPayloads ==
    {WithOptional(WithOptional(p, "cc", c), "bcc", b) :
        p \in RequiredParts,
        c \in OptionalLists \cup {Msg("absent")},
        b \in {Null, Msg("absent")}}
SendBodies == {JsonText(Obj(p)) : p \in SendPayloads} \cup {BadText}

(***************************************************************************)
(* One action per endpoint.  Requests are served only after startup.       *)
(***************************************************************************)
Serve(name, a, rep, h) ==
    /\ phase = "serving"
    /\ op' = name
    /\ args' = a
    /\ reply' = IF h.calls = <<>> THEN NoReply ELSE rep
    /\ calls' = h.calls
    /\ response' = h.response
    /\ UNCHANGED <<env, phase, unipile>>

GetAccounts ==
    \E rep \in ListReplies(AccountBodies) :
        Serve("get_accounts", EmptyDict, rep, get_accounts(unipile, rep))

ReplyEmail ==
    \E request \in EmailRequests, attachment \in Attachments, rep \in PostReplies(SendReplyBodies) :
        Serve("reply_email",
              [request |-> request, reply_to |-> M1, attachment |-> attachment],
              rep,
              reply_email(env.dsn, env.api_key, request, M1, attachment, rep))

SendEmail ==
    \E body \in SendBodies, rep \in PostReplies(SendReplyBodies) :
        Serve("send_email", [body |-> body], rep,
              send_email(env.dsn, env.api_key, body, rep))

GetRecentMessages ==
    \E account_id \in AccountIds, batch_size \in Limits,
       rep \in ListReplies(MessageBodies) :
        Serve("get_recent_messages", [account_id |-> account_id, limit |-> batch_size], rep,
              get_recent_messages(unipile, account_id, batch_size, rep))

GetEmails ==
    \E account_id \in AccountIds, limit \in Limits,
       rep \in ListReplies(EmailBodies) :
        Serve("get_emails", [account_id |-> account_id, limit |-> limit], rep,
              get_emails(unipile, account_id, limit, rep))

Next ==
    \/ Lifespan
    \/ GetAccounts
    \/ ReplyEmail
    \/ SendEmail
    \/ GetRecentMessages
    \/ GetEmails

Spec == Init /\ [][Next]_vars
(***************************************************************************)
(* Properties.                                                              *)
(***************************************************************************)
Answered == op # "none"
UpstreamAnswered == Answered /\ calls # <<>> /\ ~reply.fault
IsSuccess == response.status = 200 /\ "detail" \notin DOMAIN response.body
IsError == response.status = 500 /\ DOMAIN response.body = {"detail"}
OptionalFields == {"cc", "bcc"}
RequiredFields == {"account_id", "subject", "body", "to"}
\* the summaries get_emails returned, and the records the upstream sent
Summaries == response.body.emails.v
UpstreamRecords == reply.body.v.v
\* the JSON object the caller posted to send_email
CallerPayload == Loads(args.body).v

\* C1: on every endpoint a non-2xx upstream response ends in a 500 response with
\* a non-empty detail, never in a success envelope.
C1_Non2xxIs500 ==
    (UpstreamAnswered /\ ~Is2xx(reply.status))
        => (IsError /\ response.body.detail.v # "" /\ ~IsSuccess)

\* C2: the list get_emails and get_recent_messages return is never longer than
\* the requested limit / batch_size, whatever the upstream sends.
C2_LengthWithinLimit ==
    /\ (op = "get_emails" /\ IsSuccess) => Len(Summaries) <= args.limit
    /\ (op = "get_recent_messages" /\ IsSuccess) => Len(response.body.data.v) <= args.limit

\* C3 as stated: projecting a summary get_emails returned gives the same summary.
C3_ProjectionIdempotent ==
    (op = "get_emails" /\ IsSuccess)
        => \A i \in 1..Len(Summaries) : Project(Summaries[i].v) = Summaries[i].v

\* C3 as amended: projecting a summary get_emails returned does not fail and keeps
\* its id, subject and date, but gives a null sender and an empty body, because the
\* projection reads the upstream keys from_attendee and body_markdown.
C3_Reprojection ==
    (op = "get_emails" /\ IsSuccess)
        => \A i \in 1..Len(Summaries) :
              LET p == Summaries[i].v
                  q == Project(p)
              IN  /\ ~ProjectRaises(p)
                  /\ DOMAIN q = SummaryKeys
                  /\ q["id"] = p["id"]
                  /\ q["subject"] = p["subject"]
                  /\ q["date"] = p["date"]
                  /\ q["from"] = Null
                  /\ q["body"] = Str(<<>>)

\* a summary with a sender and a body was returned
C3_Witness ==
    /\ op = "get_emails" /\ IsSuccess
    /\ \E i \in 1..Len(Summaries) :
          Summaries[i].v["from"] # Null /\ Summaries[i].v["body"] # Str(<<>>)

\* C4 as stated: a cc, bcc or attachment that is absent or null in the request has
\* no key in the payload sent upstream.
C4_AbsentOrNullOmitted ==
    /\ (op = "reply_email" /\ calls # <<>>)
          => /\ \A f \in OptionalFields :
                    args.request[f] = Null => f \notin DOMAIN calls[1].data
             /\ args.attachment = NoFile => "attachments" \notin DOMAIN calls[1].files
    /\ (op = "send_email" /\ calls # <<>>)
          => \A f \in OptionalFields :
                 (f \notin DOMAIN CallerPayload \/ CallerPayload[f] = Null)
                     => f \notin DOMAIN calls[1].json.v

\* C4 as amended: in reply_email a cc, bcc or attachment that is absent or null has
\* no key in the upstream payload; in send_email a cc or bcc key that is absent from
\* the caller's JSON is absent from the upstream payload.
C4_AbsentOmitted ==
    /\ (op = "reply_email" /\ calls # <<>>)
          => /\ \A f \in OptionalFields :
                    args.request[f] = Null => f \notin DOMAIN calls[1].data
             /\ args.attachment = NoFile => "attachments" \notin DOMAIN calls[1].files
    /\ (op = "send_email" /\ calls # <<>>)
          => \A f \in OptionalFields :
                 f \notin DOMAIN CallerPayload => f \notin DOMAIN calls[1].json.v

\* a reply without cc, bcc and attachment was posted upstream
C4_Witness ==
    /\ op = "reply_email" /\ Len(calls) = 1
    /\ args.request.cc = Null /\ args.request.bcc = Null /\ args.attachment = NoFile

\* C5 as stated: send_email posts the caller's JSON unchanged and, when the upstream
\* answers 2xx, returns the success envelope with the upstream body.
C5_SendVerbatim ==
    (op = "send_email" /\ calls # <<>>)
        => /\ calls[1].json = Loads(args.body)
           /\ (~reply.fault /\ Is2xx(reply.status))
                 => /\ IsSuccess
                    /\ DOMAIN response.body = {"message", "response"}
                    /\ response.body.message = Msg("Email sent successfully")

\* C5 as amended: send_email posts the caller's JSON unchanged and, when the upstream
\* answers 2xx with a body that parses as JSON, returns exactly
\* {message: "Email sent successfully", response: <upstream body>}.
C5_SendVerbatimJson ==
    (op = "send_email" /\ calls # <<>>)
        => /\ calls[1].json = Loads(args.body)
           /\ (~reply.fault /\ Is2xx(reply.status) /\ reply.body.json)
                 => /\ response.status = 200
                    /\ DOMAIN response.body = {"message", "response"}
                    /\ response.body.message = Msg("Email sent successfully")
                    /\ response.body.response = reply.body.v

\* a payload with a cc list was sent and the upstream answered 200 with JSON
C5_Witness ==
    /\ op = "send_email" /\ Len(calls) = 1
    /\ "cc" \in DOMAIN CallerPayload
    /\ ~reply.fault /\ reply.status = 200 /\ reply.body.json
    /\ IsSuccess

\* C6: with the host or the API key missing or empty the server never serves: no
\* request is handled and no client is constructed; it serves only with both present.
C6_StartupGate ==
    /\ (~Truthy(env.dsn) \/ ~Truthy(env.api_key))
          => /\ phase \in {"starting", "failed"}
             /\ unipile = NoClient
             /\ ~Answered
             /\ calls = <<>>
    /\ phase = "serving"
          => /\ Truthy(env.dsn) /\ Truthy(env.api_key)
             /\ unipile = UnipileWrapper(env.dsn, env.api_key)
    /\ Answered => phase = "serving"

\* startup failed with the host present and the API key missing
C6_Witness == phase = "failed" /\ Truthy(env.dsn) /\ ~Truthy(env.api_key)

\* C7: get_emails does not fail on a record with a missing field (absent key, absent
\* or null sender object or body): it answers with a success envelope whose bodies
\* are whitespace-trimmed.
C7_MissingFieldsDegrade ==
    (op = "get_emails" /\ UpstreamAnswered /\ Is2xx(reply.status) /\ reply.body.json)
        => /\ IsSuccess
           /\ \A i \in 1..Len(Summaries) :
                  Summaries[i].v["body"].v = Strip(Summaries[i].v["body"].v)

\* C8: a send_email payload that lacks a required field, or has an empty recipient
\* list, causes no upstream call and ends in an error envelope.
C8_SendValidated ==
    (/\ op = "send_email"
     /\ args.body.json
     /\ \/ \E f \in RequiredFields : f \notin DOMAIN CallerPayload
        \/ CallerPayload["to"] = Arr(<<>>))
        => (calls = <<>> /\ IsError)

\* C9: a request causes at most one upstream call, also when the call fails, and
\* ends in exactly one outcome: a success envelope or an error envelope.
C9_AtMostOneCall ==
    Answered
        => /\ Len(calls) <= 1
           /\ IsSuccess # IsError

\* the upstream failed a send and the request ended in one error after one call
C9_Witness ==
    /\ op = "send_email" /\ Len(calls) = 1
    /\ ~reply.fault /\ reply.status = 500
    /\ IsError

\* C10: on success get_emails returns one summary per upstream record in the
\* upstream order, each with exactly the keys id, subject, date, from, body.
C10_OnePerRecordInOrder ==
    (op = "get_emails" /\ IsSuccess)
        => /\ Len(Summaries) = Len(UpstreamRecords)
           /\ \A i \in 1..Len(Summaries) :
                  LET s == Summaries[i].v
                      r == UpstreamRecords[i].v
                  IN  /\ DOMAIN s = SummaryKeys
                      /\ s["id"] = Get(r, "id")
                      /\ s["subject"] = Get(r, "subject")
                      /\ s["date"] = Get(r, "date")
                      /\ s["from"] = IF "from_attendee" \in DOMAIN r
                                     THEN Get(r["from_attendee"].v, "email")
                                     ELSE Null
                      /\ s["body"] = IF "body_markdown" \in DOMAIN r
                                     THEN Str(Strip(r["body_markdown"].v))
                                     ELSE Str(<<>>)

\* two different records came back as two summaries
C10_Witness ==
    /\ op = "get_emails" /\ IsSuccess
    /\ Len(Summaries) = 2
    /\ Summaries[1] # Summaries[2]
====
